---- MODULE Spec2Model ----
(***************************************************************************)
(* Trading journal: credential store, trade store, authenticated exchange  *)
(* request and the dispatcher's handlers (db.py, bitunix.py, bot.py).      *)
(*                                                                         *)
(* The specifications below share the definitions:                         *)
(*   Spec          the dispatcher's handlers as concurrent asyncio tasks,  *)
(*                 stepping from one await to the next                     *)
(*   SpecRequest   one bitunix_request against every answer                *)
(*   SpecStore     upsert_user, get_user, delete_user one after another    *)
(*   SpecJournal   insert_trades, add_note, list_trades one after another  *)
(*   SpecNormalize the normalizer of fetch_user_trades on a tradeList      *)
(*   SpecCanon     canonical_query applied to a parameter mapping and to a *)
(*                 re-insertion of the same mapping in another order       *)
(*   SpecSign      two requests signed with the same key, secret, nonce    *)
(*                 and timestamp                                           *)
(*   SpecList      list_trades on a stored journal                         *)
(*   SpecNotes     add_note on journals of two users                       *)
(*   SpecLeak      one request run twice, with two secrets                 *)
(*   SpecLive      the five handlers with store calls that may raise,      *)
(*                 under weak fairness of every invocation                 *)
(*   SpecRounds    the handlers of SpecLive, invocation after invocation   *)
(***************************************************************************)
EXTENDS Integers, Sequences, FiniteSets, TLC

VARIABLES
    users,      \* table users: a set of rows
    trades,     \* table trades, committed rows in rowid order
    clock,      \* int(time.time())
    writer,     \* the task whose connection holds SQLite's write lock (0: none)
    view,       \* the writer connection's uncommitted view of table trades
    task,       \* the handler invocations (Spec, SpecLive, SpecRounds)
    call,       \* the last completed call of a function (the other specifications)
    canon       \* two parameter mappings and what the Signer makes of each (SpecCanon, SpecSign)

vars == <<users, trades, clock, writer, view, task, call, canon>>

----------------------------------------------------------------------------
(* Bounds *)

MaxClock == 1       \* time.time() takes the values 0..MaxClock
NumTasks == 3       \* handler invocations of one run of Spec
NumLive == 1        \* handler invocations that SpecLive runs at a time
MaxBatch == 2       \* entries of one tradeList / one insert_trades list
MaxParams == 3      \* entries of one query-parameter mapping
MaxSignParams == 2  \* entries of the query-parameter mapping of a signed request

Users == {"1", "2"}                  \* str(interaction.user.id)
Credentials == {[api_key |-> "K1", api_secret |-> "S1"],
                [api_key |-> "K2", api_secret |-> "S2"]}
Tasks == 1..NumTasks
NoteIds == {"T1", "T2"}              \* the trade ids a user annotates
Notes == {"n1"}

Min(a, b) == IF a < b THEN a ELSE b
PageSize == 10      \* page_size of view_journal
Max(a, b) == IF a < b THEN b ELSE a

----------------------------------------------------------------------------
(* JSON / Python values.  t is the Python type after json.loads; n holds   *)
(* the number of an int or bool, s the text of a str.  A float is held in  *)
(* fixed point: n is its number of tenths (JFloat(15) is 1.5).             *)

JInt(n)   == [t |-> "int",   n |-> n, s |-> ""]
JFloat(n) == [t |-> "float", n |-> n, s |-> ""]
JStr(s)   == [t |-> "str",   n |-> 0, s |-> s]
JBool(b)  == [t |-> "bool",  n |-> IF b THEN 1 ELSE 0, s |-> ""]
JNull     == [t |-> "null",  n |-> 0, s |-> ""]      \* None (JSON null)
JAbsent   == [t |-> "absent", n |-> 0, s |-> ""]     \* the key is not in the dict
JList     == [t |-> "list",  n |-> 0, s |-> ""]      \* some JSON array
JDict     == [t |-> "dict",  n |-> 0, s |-> ""]      \* some nested JSON object
\* an integer literal above the range of float (1 followed by 400 zeros)
JHugeInt  == [t |-> "hugeint", n |-> 0, s |-> ""]
\* the float json.loads reads from Infinity or from 1e999
JInf      == [t |-> "inf",   n |-> 0, s |-> ""]

IsNumber(v) == v.t \in {"int", "float", "bool"}

\* the number of tenths of an int, float or bool
Tenths(v) == IF v.t = "float" THEN v.n ELSE 10 * v.n

\* Python's ==: int, float and bool compare by number (False == 0, True == 1),
\* str with str by text, None only with None; other mixes are unequal.
PyEq(a, b) ==
    IF IsNumber(a) /\ IsNumber(b) THEN Tenths(a) = Tenths(b)
    ELSE IF a.t = "str" /\ b.t = "str" THEN a.s = b.s
    ELSE IF a.t = "null" /\ b.t = "null" THEN TRUE
    ELSE FALSE

\* Python's truth value, as `or` uses it.
PyTruthy(v) ==
    CASE IsNumber(v)   -> v.n # 0
      [] v.t = "str"   -> v.s # ""
      [] v.t = "null"  -> FALSE
      [] OTHER         -> TRUE    \* the non-empty containers of the pools below

\* str(v), as an f-string renders it.
PyStr(v) ==
    CASE v.t = "int"   -> ToString(v.n)
      [] v.t = "float" -> ToString(v.n \div 10) \o "." \o ToString(v.n % 10)
      [] v.t = "str"   -> v.s
      [] v.t = "bool"  -> IF v.n = 1 THEN "True" ELSE "False"
      [] v.t = "null"  -> "None"
      [] v.t = "list"  -> "[...]"
      [] v.t = "hugeint" -> "1000...0"
      [] v.t = "inf"   -> "inf"
      [] OTHER         -> "{...}"

----------------------------------------------------------------------------
(* db.py: table users *)

UserRow(discord_id, api_key, api_secret, created_at, updated_at) ==
    [discord_id |-> discord_id, api_key |-> api_key, api_secret |-> api_secret,
     created_at |-> created_at, updated_at |-> updated_at]

\* INSERT OR REPLACE: the row is rewritten whole, created_at included.
upsert_user_replace(U, discord_id, api_key, api_secret, now) ==
    {r \in U : r.discord_id # discord_id}
        \cup {UserRow(discord_id, api_key, api_secret, now, now)}

\* INSERT ... ON CONFLICT(discord_id) DO UPDATE SET api_key, api_secret, updated_at
upsert_user(U, discord_id, api_key, api_secret, now) ==
    IF \E r \in U : r.discord_id = discord_id
    THEN {IF r.discord_id = discord_id
          THEN [r EXCEPT !.api_key = api_key, !.api_secret = api_secret,
                         !.updated_at = now]
          ELSE r : r \in U}
    ELSE U \cup {UserRow(discord_id, api_key, api_secret, now, now)}

\* SELECT ... WHERE discord_id = ?, fetchone(): <<>> is None, <<row>> the dict
get_user(U, discord_id) ==
    IF \E r \in U : r.discord_id = discord_id
    THEN <<CHOOSE r \in U : r.discord_id = discord_id>>
    ELSE <<>>

\* DELETE FROM users without its WHERE clause
delete_user_all(U, discord_id) == {}

\* DELETE FROM users WHERE discord_id = ?
delete_user(U, discord_id) == {r \in U : r.discord_id # discord_id}

----------------------------------------------------------------------------
(* db.py: table trades *)

\* A trade as insert_trades receives it.  has_id: the dict has the key "trade_id".
Trade(has_id, trade_id, symbol, timestamp_ms, side, qty, price, realized_pnl, fee, raw_json) ==
    [has_id |-> has_id, trade_id |-> trade_id, symbol |-> symbol,
     timestamp_ms |-> timestamp_ms, side |-> side, qty |-> qty, price |-> price,
     realized_pnl |-> realized_pnl, fee |-> fee, raw_json |-> raw_json]

\* id INTEGER PRIMARY KEY AUTOINCREMENT, no row is ever deleted
NextRowId(T) == IF T = <<>> THEN 1 ELSE T[Len(T)].id + 1

\* The row an INSERT creates: note is not in the column list, so it is NULL (<<>>).
TradeRow(T, discord_id, tr) ==
    [id |-> NextRowId(T), user_discord_id |-> discord_id, trade_id |-> tr.trade_id,
     symbol |-> tr.symbol, timestamp_ms |-> tr.timestamp_ms, side |-> tr.side,
     qty |-> tr.qty, price |-> tr.price, realized_pnl |-> tr.realized_pnl,
     fee |-> tr.fee, note |-> <<>>, raw_json |-> tr.raw_json]

\* UNIQUE(user_discord_id, trade_id)
Conflicts(T, discord_id, trade_id) ==
    \E k \in 1..Len(T) : T[k].user_discord_id = discord_id /\ T[k].trade_id = trade_id

\* INSERT without the uniqueness test: the row is always added.
InsertAlways(T, discord_id, tr) ==
    [rows |-> Append(T, TradeRow(T, discord_id, tr)), rowcount |-> 1, error |-> ""]

\* INSERT without OR IGNORE: a conflict raises sqlite3.IntegrityError.
InsertOrAbort(T, discord_id, tr) ==
    IF Conflicts(T, discord_id, tr.trade_id)
    THEN [rows |-> T, rowcount |-> 0, error |-> "IntegrityError"]
    ELSE [rows |-> Append(T, TradeRow(T, discord_id, tr)), rowcount |-> 1, error |-> ""]

\* INSERT OR REPLACE: a conflict deletes the old row and inserts the new one.
InsertOrReplace(T, discord_id, tr) ==
    IF Conflicts(T, discord_id, tr.trade_id)
    THEN [rows |-> Append(SelectSeq(T, LAMBDA r : ~(r.user_discord_id = discord_id
                                                     /\ r.trade_id = tr.trade_id)),
                          TradeRow(T, discord_id, tr)),
          rowcount |-> 1, error |-> ""]
    ELSE [rows |-> Append(T, TradeRow(T, discord_id, tr)), rowcount |-> 1, error |-> ""]

\* INSERT OR IGNORE INTO trades (...): a conflict leaves the table alone, rowcount 0
InsertOrIgnore(T, discord_id, tr) ==
    IF Conflicts(T, discord_id, tr.trade_id)
    THEN [rows |-> T, rowcount |-> 0, error |-> ""]
    ELSE [rows |-> Append(T, TradeRow(T, discord_id, tr)), rowcount |-> 1, error |-> ""]

\* float('inf') and an int above the range of float, in the order of numbers:
\* above every finite number of the pools.  HugeInt is above the range of
\* SQLite's INTEGER too.
FloatInf == 2000000001
HugeInt  == 2000000000

\* One pass of the loop body: trade["trade_id"] raises KeyError before the
\* statement runs, and sqlite3 raises OverflowError as it binds an int that
\* SQLite's INTEGER cannot hold; otherwise the statement runs on the
\* connection's view.
ExecInsert(T, discord_id, tr) ==
    IF ~tr.has_id
    THEN [rows |-> T, rowcount |-> 0, error |-> "KeyError"]
    ELSE IF tr.timestamp_ms >= HugeInt
    THEN [rows |-> T, rowcount |-> 0, error |-> "OverflowError"]
    ELSE InsertOrIgnore(T, discord_id, tr)

\* The for loop from entry i on, with `inserted` so far; stops at the first error.
RECURSIVE InsertLoop(_, _, _, _, _)
InsertLoop(T, discord_id, list, i, inserted) ==
    IF i > Len(list)
    THEN [rows |-> T, inserted |-> inserted, error |-> ""]
    ELSE LET r == ExecInsert(T, discord_id, list[i])
         IN  IF r.error # ""
             THEN [rows |-> r.rows, inserted |-> inserted, error |-> r.error]
             ELSE InsertLoop(r.rows, discord_id, list, i + 1,
                             inserted + Max(r.rowcount, 0))

\* insert_trades run to its end on committed table T: the table afterwards,
\* the returned count and the exception raised ("" for none).  An exception
\* leaves the `async with` before db.commit(): the connection closes and
\* SQLite rolls its transaction back.
insert_trades(T, discord_id, list) ==
    IF list = <<>>
    THEN [rows |-> T, result |-> 0, error |-> ""]
    ELSE LET r == InsertLoop(T, discord_id, list, 1, 0)
         IN  IF r.error # ""
             THEN [rows |-> T, result |-> 0, error |-> r.error]
             ELSE [rows |-> r.rows, result |-> r.inserted, error |-> ""]

\* add_note with the user left out of its WHERE clause
add_note_any_user(T, discord_id, trade_id, note) ==
    [rows |-> [k \in 1..Len(T) |->
                  IF T[k].trade_id = trade_id
                  THEN [T[k] EXCEPT !.note = <<note>>]
                  ELSE T[k]],
     updated |-> \E k \in 1..Len(T) : T[k].trade_id = trade_id]

\* db.add_note, which bot.py imports and calls: the note of the row of
\* (discord_id, trade_id) is set; updated tells whether a row matched.
add_note(T, discord_id, trade_id, note) ==
    [rows |-> [k \in 1..Len(T) |->
                  IF T[k].user_discord_id = discord_id /\ T[k].trade_id = trade_id
                  THEN [T[k] EXCEPT !.note = <<note>>]
                  ELSE T[k]],
     updated |-> Conflicts(T, discord_id, trade_id)]

\* ORDER BY timestamp_ms DESC, id DESC: r comes before q
Newer(r, q) ==
    r.timestamp_ms > q.timestamp_ms \/ (r.timestamp_ms = q.timestamp_ms /\ r.id > q.id)

\* row r put into s, which is in that order
RECURSIVE InsertRow(_, _)
InsertRow(s, r) ==
    IF s = <<>> THEN <<r>>
    ELSE IF Newer(r, s[1]) THEN <<r>> \o s
    ELSE <<s[1]>> \o InsertRow(Tail(s), r)

RECURSIVE ByRecency(_)
ByRecency(rows) ==
    IF rows = <<>> THEN <<>> ELSE InsertRow(ByRecency(Tail(rows)), rows[1])

\* WHERE user_discord_id = ? AND timestamp_ms >= ? [AND symbol = ?];
\* symbol is <<>> for None, <<text>> for a filter
Matches(r, discord_id, since_ms, symbol) ==
    /\ r.user_discord_id = discord_id
    /\ r.timestamp_ms >= since_ms
    /\ symbol # <<>> => r.symbol = symbol[1]

\* list_trades with the count of the page in place of the count of the set
list_trades_page_total(T, discord_id, since_ms, limit, offset, symbol) ==
    LET filtered == SelectSeq(T, LAMBDA r : Matches(r, discord_id, since_ms, symbol))
        ordered  == ByRecency(filtered)
        page     == SubSeq(ordered, offset + 1, Min(offset + limit, Len(ordered)))
    IN  [page |-> page, total |-> Len(page)]

\* db.list_trades, which bot.py imports and calls: the rows of the user at or
\* after since_ms (of the symbol, when one is given), newest first, the
\* window of limit rows after the first offset, and the count of the whole
\* filtered set.
list_trades(T, discord_id, since_ms, limit, offset, symbol) ==
    LET filtered == SelectSeq(T, LAMBDA r : Matches(r, discord_id, since_ms, symbol))
        ordered  == ByRecency(filtered)
        page     == SubSeq(ordered, offset + 1, Min(offset + limit, Len(ordered)))
    IN  [page |-> page, total |-> Len(filtered)]

----------------------------------------------------------------------------
(* bitunix.py: the response checks of bitunix_request *)

ExcerptLen == 400

\* response_text[:400]; a text is its content s and its length len
Excerpt(text) == [s |-> text.s, len |-> Min(text.len, ExcerptLen)]
NoText == [s |-> "", len |-> 0]

\* dict.get(key): None for an absent key
Get(v) == IF v.t = "absent" THEN JNull ELSE v
\* dict.get(key, default)
GetOr(v, default) == IF v.t = "absent" THEN default ELSE v

\* An exception: its class, and its message as the f-string builds it: the
\* literal text the message starts with, up to two formatted values, and the
\* body excerpt.
Failure(exc, prefix, a, b, excerpt) ==
    [exc |-> exc, prefix |-> prefix, a |-> a, b |-> b, excerpt |-> excerpt]
NoFailure == Failure("", "", "", "", NoText)

Unregistered ==
    Failure("Exception", "Usuario no registrado. Usa /register_bitunix en DM.",
            "", "", NoText)

\* payload.get("msg") or payload.get("message") or "Sin detalle"
PayloadMsg(payload) ==
    IF PyTruthy(Get(payload.msg)) THEN Get(payload.msg)
    ELSE IF PyTruthy(Get(payload.message)) THEN Get(payload.message)
    ELSE JStr("Sin detalle")

\* not (code != 0 and code != "0")
IsSuccessCode(code) == PyEq(code, JInt(0)) \/ PyEq(code, JStr("0"))

\* The checks in another order: the body is parsed before the status is read.
ResponseChecksParseFirst(resp) ==
    IF resp.timeout
    THEN Failure("TimeoutError", "", "", "", NoText)
    ELSE IF ~resp.parses
    THEN Failure("Exception", "JSON invalido: ", "", "", Excerpt(resp.text))
    ELSE IF resp.status # 200
    THEN Failure("Exception", "HTTP ", ToString(resp.status), "", Excerpt(resp.text))
    ELSE IF resp.payload.t # "dict"
    THEN Failure("Exception", "Respuesta inesperada: se esperaba objeto JSON.",
                 "", "", NoText)
    ELSE IF ~IsSuccessCode(Get(resp.payload.code))
    THEN Failure("Exception", "Bitunix code=", PyStr(Get(resp.payload.code)),
                 PyStr(PayloadMsg(resp.payload)), NoText)
    ELSE NoFailure

\* What bitunix_request does with the response of its HTTP call: the exception
\* it raises, NoFailure when it returns the payload.  The total timeout of 20 s
\* raises asyncio.TimeoutError out of session.request.
ResponseChecks(resp) ==
    IF resp.timeout
    THEN Failure("TimeoutError", "", "", "", NoText)
    ELSE IF resp.status # 200
    THEN Failure("Exception", "HTTP ", ToString(resp.status), "", Excerpt(resp.text))
    ELSE IF ~resp.parses
    THEN Failure("Exception", "JSON invalido: ", "", "", Excerpt(resp.text))
    ELSE IF resp.payload.t # "dict"
    THEN Failure("Exception", "Respuesta inesperada: se esperaba objeto JSON.",
                 "", "", NoText)
    ELSE IF ~IsSuccessCode(Get(resp.payload.code))
    THEN Failure("Exception", "Bitunix code=", PyStr(Get(resp.payload.code)),
                 PyStr(PayloadMsg(resp.payload)), NoText)
    ELSE NoFailure

\* The lookup at the top of bitunix_request, skipped: the request goes on
\* with whatever row the lookup gave.
CredentialCheckSkipped(found) == NoFailure

\* user = await get_user(discord_id); if user is None: raise
CredentialCheck(found) == IF found = <<>> THEN Unregistered ELSE NoFailure

----------------------------------------------------------------------------
(* bitunix.py: fetch_user_trades, the normalizer *)

\* The numeric texts of the pools below, with the number of tenths float()
\* reads from each.
FloatOfText == [s \in {"0", "1", "2", "3", "100", "101", "1.5"} |->
                   CASE s = "0" -> 0 [] s = "1" -> 10 [] s = "2" -> 20
                     [] s = "3" -> 30 [] s = "100" -> 1000 [] s = "101" -> 1010
                     [] OTHER -> 15]
\* The texts int() reads (an integer literal), with the number it reads.
IntOfText == [s \in {"0", "1", "2", "3", "100", "101"} |->
                 CASE s = "0" -> 0 [] s = "1" -> 1 [] s = "2" -> 2
                   [] s = "3" -> 3 [] s = "100" -> 100 [] OTHER -> 101]

\* What a conversion gives: the value returned, or the exception that leaves
\* the function ("" for none).
Converted(v) == [v |-> v, error |-> ""]
Escapes(exc) == [v |-> 0, error |-> exc]

\* float(value): a number or a numeric text converts; None, a list or a dict
\* raises TypeError and any other text ValueError, which give the default; an
\* int above the range of float raises OverflowError, which is not caught.
_to_float(value, default) ==
    CASE IsNumber(value) -> Converted(Tenths(value))
      [] value.t = "inf" -> Converted(FloatInf)
      [] value.t = "hugeint" -> Escapes("OverflowError")
      [] value.t = "str" /\ value.s \in DOMAIN FloatOfText -> Converted(FloatOfText[value.s])
      [] OTHER -> Converted(default)

\* int(value): an int is itself, a float is cut towards zero, an integer
\* literal converts; None, a list or a dict raises TypeError and any other
\* text ValueError, which give the default; int(inf) raises OverflowError,
\* which is not caught.
_to_int(value, default) ==
    CASE value.t \in {"int", "bool"} -> Converted(value.n)
      [] value.t = "float" -> Converted(IF value.n >= 0 THEN value.n \div 10
                                        ELSE 0 - ((0 - value.n) \div 10))
      [] value.t = "hugeint" -> Converted(HugeInt)
      [] value.t = "inf" -> Escapes("OverflowError")
      [] value.t = "str" /\ value.s \in DOMAIN IntOfText -> Converted(IntOfText[value.s])
      [] OTHER -> Converted(default)

\* json.dumps of one value
JsonText(v) ==
    CASE v.t = "int"   -> ToString(v.n)
      [] v.t = "float" -> ToString(v.n \div 10) \o "." \o ToString(v.n % 10)
      [] v.t = "str"   -> "\"" \o v.s \o "\""
      [] v.t = "bool"  -> IF v.n = 1 THEN "true" ELSE "false"
      [] v.t = "null"  -> "null"
      [] v.t = "list"  -> "[...]"
      [] v.t = "hugeint" -> "1000...0"
      [] v.t = "inf"   -> "Infinity"
      [] OTHER         -> "{...}"

RawKeys == <<"tradeId", "symbol", "ctime", "side", "qty", "price", "realizedPNL", "fee">>

RECURSIVE DumpsFrom(_, _)
DumpsFrom(item, k) ==
    IF k > Len(RawKeys) THEN "}"
    ELSE IF item[RawKeys[k]].t = "absent" THEN DumpsFrom(item, k + 1)
    ELSE "\"" \o RawKeys[k] \o "\":" \o JsonText(item[RawKeys[k]]) \o ","
             \o DumpsFrom(item, k + 1)

\* json.dumps(item, separators=(",", ":")): the keys present, in the item's order
Dumps(item) == "{" \o DumpsFrom(item, 1)

\* The dict normalized.append receives for one retained entry whose
\* conversions all return.
NormalizeItem(item) ==
    Trade(TRUE,
          PyStr(item.tradeId),
          PyStr(GetOr(item.symbol, JStr(""))),
          _to_int(Get(item.ctime), 0).v,
          PyStr(GetOr(item.side, JStr(""))),
          _to_float(Get(item.qty), 0).v,
          _to_float(Get(item.price), 0).v,
          _to_float(Get(item.realizedPNL), 0).v,
          _to_float(Get(item.fee), 0).v,
          Dumps(item))

\* The exception that leaves the dict display of one retained entry: the
\* first conversion, in the order of the display, that raises ("" for none).
ItemError(item) ==
    LET errors == <<_to_int(Get(item.ctime), 0).error,
                    _to_float(Get(item.qty), 0).error,
                    _to_float(Get(item.price), 0).error,
                    _to_float(Get(item.realizedPNL), 0).error,
                    _to_float(Get(item.fee), 0).error>>
        raised == {k \in 1..Len(errors) : errors[k] # ""}
    IN  IF raised = {} THEN ""
        ELSE errors[CHOOSE k \in raised : \A j \in raised : k <= j]

\* if not isinstance(item, dict): continue / if trade_id_val is None: continue
Retained(item) == item.isDict /\ Get(item.tradeId).t # "null"

\* The for loop from entry k on, with `normalized` so far: the list at the
\* end of the loop, or the exception that ended it.
RECURSIVE NormalizeFrom(_, _, _)
NormalizeFrom(list, k, normalized) ==
    IF k > Len(list) THEN [trades |-> normalized, error |-> ""]
    ELSE IF ~Retained(list[k]) THEN NormalizeFrom(list, k + 1, normalized)
    ELSE IF ItemError(list[k]) # ""
         THEN [trades |-> normalized, error |-> ItemError(list[k])]
         ELSE NormalizeFrom(list, k + 1, Append(normalized, NormalizeItem(list[k])))

\* The normalizer on a tradeList: the returned (len(normalized), normalized),
\* or the exception raised.
Normalize(list) ==
    LET r == NormalizeFrom(list, 1, <<>>)
    IN  IF r.error # ""
        THEN [count |-> 0, trades |-> <<>>, error |-> r.error]
        ELSE [count |-> Len(r.trades), trades |-> r.trades, error |-> ""]

\* data = response.get("data"); the tradeList of a dict data when it is a list
TradeListOf(payload) ==
    IF payload.data.isDict /\ payload.data.isList THEN payload.data.tradeList ELSE <<>>

\* fetch_user_trades after bitunix_request returned payload: the second code
\* check, then the normalized list.
FetchResult(payload) ==
    IF ~IsSuccessCode(Get(payload.code))
    THEN [failure |-> Failure("Exception", "Bitunix code=", PyStr(Get(payload.code)),
                              PyStr(PayloadMsg(payload)), NoText),
          trades |-> <<>>]
    ELSE LET r == Normalize(TradeListOf(payload))
         IN  IF r.error # ""
             THEN [failure |-> Failure(r.error, "", "", "", NoText), trades |-> <<>>]
             ELSE [failure |-> NoFailure, trades |-> r.trades]

----------------------------------------------------------------------------
(* What the exchange may answer *)

Raw(isDict, tradeId, symbol, ctime, side, qty, price, realizedPNL, fee) ==
    [isDict |-> isDict, tradeId |-> tradeId, symbol |-> symbol, ctime |-> ctime,
     side |-> side, qty |-> qty, price |-> price, realizedPNL |-> realizedPNL,
     fee |-> fee]

RawT1   == Raw(TRUE, JStr("T1"), JStr("BTCUSDT"), JInt(1), JStr("BUY"),
               JStr("2"), JStr("100"), JStr("3"), JStr("1"))
\* the same exchange trade id, reported with other field values
RawT1b  == Raw(TRUE, JStr("T1"), JStr("ETHUSDT"), JInt(2), JStr("SELL"),
               JStr("3"), JStr("101"), JStr("0"), JStr("2"))
RawT2   == Raw(TRUE, JStr("T2"), JAbsent, JStr("2"), JNull,
               JStr("abc"), JNull, JInt(1), JAbsent)
RawNoId == Raw(TRUE, JAbsent, JStr("BTCUSDT"), JInt(1), JStr("BUY"),
               JStr("3"), JStr("100"), JStr("0"), JStr("0"))
RawText == Raw(FALSE, JAbsent, JAbsent, JAbsent, JAbsent,
               JAbsent, JAbsent, JAbsent, JAbsent)      \* an entry that is no dict
\* tradeId: null; an int trade id with fractional, nested and boolean fields
RawNull == Raw(TRUE, JNull, JStr("BTCUSDT"), JInt(1), JStr("BUY"),
               JStr("1"), JStr("1"), JStr("1"), JStr("1"))
RawT3   == Raw(TRUE, JInt(3), JInt(7), JFloat(19), JBool(TRUE),
               JStr("1.5"), JFloat(15), JDict, JList)
\* out-of-range numbers: a qty above the range of float, an infinite ctime,
\* and the two the other way round
RawHugeQty == Raw(TRUE, JStr("T4"), JStr("BTCUSDT"), JInt(1), JStr("BUY"),
                  JHugeInt, JStr("100"), JStr("0"), JStr("0"))
RawInfTime == Raw(TRUE, JStr("T5"), JStr("BTCUSDT"), JInf, JStr("BUY"),
                  JStr("1"), JStr("100"), JStr("0"), JStr("0"))
RawHugeTime == Raw(TRUE, JStr("T6"), JStr("BTCUSDT"), JHugeInt, JStr("BUY"),
                   JInf, JStr("1.5"), JStr("abc"), JNull)

RawPool == {RawT1, RawT1b, RawT2, RawNoId, RawText, RawNull, RawT3,
            RawHugeQty, RawInfTime, RawHugeTime}
\* every tradeList of at most MaxBatch entries (the normalizer's inputs)
RawLists == UNION {[1..n -> RawPool] : n \in 0..MaxBatch}
\* the tradeLists the exchange answers a sync with
ExchangePages == {<<RawT1, RawT2>>, <<RawT2, RawT1b>>, <<RawNoId, RawText>>}

Data(isDict, isList, tradeList) ==
    [isDict |-> isDict, isList |-> isList, tradeList |-> tradeList]
Payload(t, code, msg, message, data) ==
    [t |-> t, code |-> code, msg |-> msg, message |-> message, data |-> data]
Resp(timeout, status, text, parses, payload) ==
    [timeout |-> timeout, status |-> status, text |-> text, parses |-> parses,
     payload |-> payload]

NoData    == Data(FALSE, FALSE, <<>>)
NoPayload == Payload("none", JAbsent, JAbsent, JAbsent, NoData)
NoResp    == Resp(FALSE, 0, NoText, FALSE, NoPayload)

JsonBody == [s |-> "{json}", len |-> 120]
HtmlBody == [s |-> "<html>Bad Gateway...", len |-> 1000]
JunkBody == [s |-> "not json", len |-> 8]

CodePool == {JInt(0), JStr("0"), JFloat(0), JBool(FALSE), JBool(TRUE), JInt(10001),
             JStr("10001"), JStr("00"), JStr(""), JNull, JAbsent}
MsgPool == {<<JStr("invalid signature"), JAbsent>>, <<JAbsent, JStr("bad request")>>,
            <<JStr(""), JNull>>}

\* the answers a sync of Spec meets: one of each outcome, and every page
SyncResponses ==
    {Resp(TRUE, 0, NoText, FALSE, NoPayload),
     Resp(FALSE, 502, HtmlBody, FALSE, NoPayload),
     Resp(FALSE, 200, JsonBody, TRUE,
          Payload("dict", JInt(10001), JStr("invalid signature"), JAbsent, NoData))}
    \cup {Resp(FALSE, 200, JsonBody, TRUE,
               Payload("dict", JInt(0), JStr("success"), JAbsent, Data(TRUE, TRUE, l)))
            : l \in ExchangePages}

\* the answers a sync of SpecLive meets: one of each failure, a page that
\* is stored, a page with a number that the normalizer cannot convert and a
\* page with a time that the normalizer converts and SQLite cannot hold
LiveResponses ==
    {Resp(TRUE, 0, NoText, FALSE, NoPayload),
     Resp(FALSE, 502, HtmlBody, FALSE, NoPayload),
     Resp(FALSE, 200, JsonBody, TRUE,
          Payload("dict", JInt(10001), JStr("invalid signature"), JAbsent, NoData)),
     Resp(FALSE, 200, JsonBody, TRUE,
          Payload("dict", JInt(0), JStr("success"), JAbsent,
                  Data(TRUE, TRUE, <<RawT2, RawT1b>>)))}
    \cup {Resp(FALSE, 200, JunkBody, FALSE, NoPayload),
          Resp(FALSE, 200, JsonBody, TRUE, Payload("list", JAbsent, JAbsent, JAbsent, NoData)),
          Resp(FALSE, 200, JsonBody, TRUE,
               Payload("dict", JInt(0), JStr("success"), JAbsent,
                       Data(TRUE, TRUE, <<RawT3, RawHugeQty>>))),
          Resp(FALSE, 200, JsonBody, TRUE,
               Payload("dict", JInt(0), JStr("success"), JAbsent,
                       Data(TRUE, TRUE, <<RawT3, RawHugeTime>>)))}

\* the answers a single request of SpecRequest meets
ResponsePool ==
    {Resp(TRUE, 0, NoText, FALSE, NoPayload)}
    \cup {Resp(FALSE, 502, HtmlBody, FALSE, NoPayload),
          Resp(FALSE, 500, JsonBody, TRUE,
               Payload("dict", JInt(0), JAbsent, JAbsent, Data(TRUE, TRUE, <<RawT1>>))),
          Resp(FALSE, 200, JunkBody, FALSE, NoPayload),
          Resp(FALSE, 200, HtmlBody, FALSE, NoPayload),
          Resp(FALSE, 200, JsonBody, TRUE, Payload("list", JAbsent, JAbsent, JAbsent, NoData)),
          Resp(FALSE, 200, JsonBody, TRUE, Payload("int", JAbsent, JAbsent, JAbsent, NoData))}
    \cup {Resp(FALSE, 200, JsonBody, TRUE,
               Payload("dict", c, JAbsent, JAbsent, Data(TRUE, TRUE, <<RawT2>>)))
            : c \in CodePool}
    \cup {Resp(FALSE, 200, JsonBody, TRUE,
               Payload("dict", JInt(10001), m[1], m[2], NoData)) : m \in MsgPool}
    \cup {Resp(FALSE, 200, JsonBody, TRUE,
               Payload("dict", c, JStr("success"), JAbsent, Data(TRUE, TRUE, l)))
            : c \in {JInt(0), JStr("0")}, l \in ExchangePages}
    \cup {Resp(FALSE, 200, JsonBody, TRUE,
               Payload("dict", JInt(0), JAbsent, JAbsent, d))
            : d \in {NoData, Data(TRUE, FALSE, <<>>)}}

\* fetch_user_trades after the request has returned, tabulated once over
\* the payloads of the pools
Fetched == [p \in {r.payload : r \in SyncResponses \cup LiveResponses \cup ResponsePool}
              |-> FetchResult(p)]

----------------------------------------------------------------------------
(* bot.py: the handlers, one task per invocation *)

NoCred == [api_key |-> "", api_secret |-> ""]

IdleTask ==
    [op |-> "", user |-> "", pc |-> "idle", resp |-> NoResp, returned |-> FALSE,
     fetched |-> <<>>,
     i |-> 0, inserted |-> 0, http_calls |-> 0, failure |-> NoFailure,
     failed |-> FALSE, raced |-> FALSE, reply |-> "",
     cred |-> NoCred, trade_id |-> "", note |-> "", page |-> 0, shown |-> 0]

\* The handler's own end: the reply it sends.  Its local variables end with it.
Finish(t, reply) ==
    [task[t] EXCEPT !.pc = "done", !.reply = reply, !.failure = NoFailure,
                    !.resp = NoResp, !.i = 0, !.inserted = 0, !.http_calls = 0,
                    !.cred = NoCred, !.trade_id = "", !.note = "", !.page = 0]

\* An exception raised inside the handler's try block: the except branch is next.
Raise(t, failure) == [task[t] EXCEPT !.pc = "except", !.failure = failure]

\* Tasks take their numbers in the order they start.
CanStart(t) == task[t].pc = "idle" /\ (IF t = 1 THEN TRUE ELSE task[t - 1].pc # "idle")

\* register_bitunix: DM only; upsert_user, then the confirmation.
\* The INSERT waits for SQLite's write lock.
Register(t, u, cred, guild) ==
    /\ CanStart(t)
    /\ IF guild
       THEN /\ task' = [task EXCEPT ![t] =
                            [Finish(t, "Este comando solo en DM")
                                EXCEPT !.op = "register", !.user = u]]
            /\ UNCHANGED users
       ELSE /\ writer = 0
            /\ users' = upsert_user(users, u, cred.api_key, cred.api_secret, clock)
            /\ task' = [task EXCEPT ![t] =
                            [Finish(t, "Keys registradas")
                                EXCEPT !.op = "register", !.user = u]]
    /\ UNCHANGED <<trades, clock, writer, view, call, canon>>

\* revoke_bitunix: DM only; delete_user, then the confirmation.
Revoke(t, u, guild) ==
    /\ CanStart(t)
    /\ IF guild
       THEN /\ task' = [task EXCEPT ![t] =
                            [Finish(t, "Este comando solo en DM")
                                EXCEPT !.op = "revoke", !.user = u]]
            /\ UNCHANGED users
       ELSE /\ writer = 0
            /\ users' = delete_user(users, u)
            /\ task' = [task EXCEPT ![t] =
                            [Finish(t, "Keys eliminadas")
                                EXCEPT !.op = "revoke", !.user = u]]
    /\ UNCHANGED <<trades, clock, writer, view, call, canon>>

\* add_note_command: add_note, then the reply that tells whether a row matched
Annotate(t, u, trade_id, note) ==
    /\ CanStart(t)
    /\ writer = 0
    /\ LET r == add_note(trades, u, trade_id, note)
       IN  /\ trades' = r.rows
           /\ task' = [task EXCEPT ![t] =
                           [Finish(t, IF r.updated THEN "Nota agregada al trade"
                                      ELSE "No encontre ese trade_id en tu journal.")
                               EXCEPT !.op = "annotate", !.user = u]]
    /\ UNCHANGED <<users, clock, writer, view, call, canon>>

\* update_journal up to its own get_user: an unregistered user is told to register.
SyncGetUser(t, u) ==
    /\ CanStart(t)
    /\ task' = [task EXCEPT ![t] =
                    IF get_user(users, u) = <<>>
                    THEN [Finish(t, "Registra tus keys con /register_bitunix en DM")
                            EXCEPT !.op = "sync", !.user = u]
                    ELSE [task[t] EXCEPT !.op = "sync", !.user = u,
                                         !.pc = "req_get_user"]]
    /\ UNCHANGED <<users, trades, clock, writer, view, call, canon>>

\* fetch_user_trades -> bitunix_request: the credential lookup
ReqGetUser(t) ==
    /\ task[t].pc = "req_get_user"
    /\ LET f == CredentialCheck(get_user(users, task[t].user))
       IN  task' = [task EXCEPT ![t] =
                        IF f # NoFailure THEN Raise(t, f)
                        ELSE [task[t] EXCEPT !.pc = "http"]]
    /\ UNCHANGED <<users, trades, clock, writer, view, call, canon>>

\* History, for the concurrency claims: as task t issues its HTTP call, another
\* sync of the same user has its response and has not committed yet.
InFlight(t) ==
    \E o \in Tasks \ {t} :
        /\ task[o].op = "sync"
        /\ task[o].user = task[t].user
        /\ task[o].pc \in {"response", "insert", "commit"}

\* session.request: the one HTTP call of the request, and the response (or
\* the timeout) that comes back
HttpCall(t, resp) ==
    /\ task[t].pc = "http"
    /\ task' = [task EXCEPT ![t] =
                    [task[t] EXCEPT !.pc = "response", !.resp = resp,
                                    !.http_calls = @ + 1,
                                    !.raced = InFlight(t)]]
    /\ UNCHANGED <<users, trades, clock, writer, view, call, canon>>

\* a sync that stores each entry as it normalizes it: the entries before a
\* failing one are in the table when the exception leaves
HttpResponsePartial(t) ==
    /\ task[t].pc = "response"
    /\ LET f == ResponseChecks(task[t].resp)
           r == NormalizeFrom(TradeListOf(task[t].resp.payload), 1, <<>>)
       IN  /\ trades' = IF f = NoFailure
                         THEN insert_trades(trades, task[t].user, r.trades).rows
                         ELSE trades
           /\ task' = [task EXCEPT ![t] =
                    IF f # NoFailure THEN Raise(t, f)
                    ELSE IF r.error # ""
                         THEN [Raise(t, Failure(r.error, "", "", "", NoText))
                                 EXCEPT !.returned = TRUE]
                         ELSE [Finish(t, "Actualizado") EXCEPT !.returned = TRUE]]
    /\ UNCHANGED <<users, clock, writer, view, call, canon>>

\* After `await response.text()`, up to the next await: the response checks
\* (bitunix_request raises or returns the payload), then fetch_user_trades'
\* second code check and normalizer and insert_trades' empty test.
HttpResponse(t) ==
    /\ task[t].pc = "response"
    /\ LET f  == ResponseChecks(task[t].resp)
           fr == Fetched[task[t].resp.payload]
       IN  task' = [task EXCEPT ![t] =
                CASE f # NoFailure -> Raise(t, f)
                  [] f = NoFailure /\ fr.failure # NoFailure ->
                        [Raise(t, fr.failure) EXCEPT !.returned = TRUE]
                  [] f = NoFailure /\ fr.failure = NoFailure /\ fr.trades = <<>> ->
                        [Finish(t, "Sin cambios: no hay trades nuevos.")
                            EXCEPT !.returned = TRUE]
                  [] OTHER ->
                        [task[t] EXCEPT !.pc = "insert", !.returned = TRUE,
                                        !.resp = NoResp,
                                        !.fetched = fr.trades, !.i = 1]]
    /\ UNCHANGED <<users, trades, clock, writer, view, call, canon>>

\* the except branch that logs and raises again: no reply is sent
ExceptReraise(t) ==
    /\ task[t].pc = "except"
    /\ task' = [task EXCEPT ![t] = [task[t] EXCEPT !.pc = "escaped", !.failed = TRUE]]
    /\ UNCHANGED <<users, trades, clock, writer, view, call, canon>>

\* The handler's except branch: logger.exception, then the reply
Except(t) ==
    /\ task[t].pc = "except"
    /\ task' = [task EXCEPT ![t] =
                    [Finish(t, "Error interno (revisa consola)") EXCEPT !.failed = TRUE]]
    /\ UNCHANGED <<users, trades, clock, writer, view, call, canon>>

\* db.execute on a connection in autocommit mode: every statement is
\* committed as it runs, and an exception leaves the earlier ones in the table
InsertExecuteAutocommit(t) ==
    /\ task[t].pc = "insert"
    /\ writer = 0
    /\ LET r == ExecInsert(trades, task[t].user, task[t].fetched[task[t].i])
       IN  IF r.error # ""
           THEN /\ trades' = trades
                /\ task' = [task EXCEPT ![t] =
                                Raise(t, Failure(r.error, "", "", "", NoText))]
           ELSE /\ trades' = r.rows
                /\ task' = [task EXCEPT ![t] =
                                IF task[t].i = Len(task[t].fetched)
                                THEN Finish(t, "Actualizado: trades nuevos agregados.")
                                ELSE [task[t] EXCEPT !.i = @ + 1]]
    /\ UNCHANGED <<users, clock, writer, view, call, canon>>

\* One db.execute of insert_trades' loop.  The first one opens the write
\* transaction: it waits until no other connection holds the write lock, and
\* from then on the connection works on its own view of the table.  An
\* exception closes the connection, which rolls the transaction back.
InsertExecute(t) ==
    /\ task[t].pc = "insert"
    /\ IF task[t].i = 1 THEN writer = 0 ELSE writer = t
    /\ LET T == IF task[t].i = 1 THEN trades ELSE view
           r == ExecInsert(T, task[t].user, task[t].fetched[task[t].i])
       IN  IF r.error # ""
           THEN /\ writer' = 0
                /\ view' = <<>>
                /\ task' = [task EXCEPT ![t] =
                                Raise(t, Failure(r.error, "", "", "", NoText))]
           ELSE /\ writer' = t
                /\ view' = r.rows
                /\ task' = [task EXCEPT ![t] =
                                [task[t] EXCEPT
                                    !.inserted = @ + Max(r.rowcount, 0),
                                    !.i = @ + 1,
                                    !.pc = IF task[t].i = Len(task[t].fetched)
                                           THEN "commit" ELSE "insert"]]
    /\ UNCHANGED <<users, trades, clock, call, canon>>

\* db.commit(), the return of the count, and update_journal's reply
InsertCommit(t) ==
    /\ task[t].pc = "commit"
    /\ writer = t
    /\ trades' = view
    /\ writer' = 0
    /\ view' = <<>>
    /\ task' = [task EXCEPT ![t] =
                    Finish(t, IF task[t].inserted = 0
                              THEN "Sin cambios: no hay trades nuevos."
                              ELSE "Actualizado: trades nuevos agregados.")]
    /\ UNCHANGED <<users, clock, call, canon>>

\* time.time() moves on
Tick ==
    /\ clock < MaxClock
    /\ clock' = clock + 1
    /\ UNCHANGED <<users, trades, writer, view, task, call, canon>>

NoRun == [headers |-> <<>>, log |-> <<>>, failure |-> NoFailure]
NoCall ==
    [fn |-> "", flip |-> FALSE, discord_id |-> "", cred |-> NoCred, list |-> <<>>,
     result |-> 0, found |-> <<>>, error |-> "", fresh |-> FALSE, repeat |-> FALSE,
     raw |-> <<>>, since_ms |-> 0, limit |-> 0, offset |-> 0, symbol |-> <<>>,
     note_id |-> "", note |-> "", updated |-> FALSE,
     cred2 |-> NoCred, run1 |-> NoRun, run2 |-> NoRun]
NoCanon == [params |-> <<>>, order |-> <<>>, first |-> <<>>, second |-> <<>>,
            cred |-> NoCred]

\* The state after init_db on a new database file
Init ==
    /\ users = {}
    /\ trades = <<>>
    /\ clock = 0
    /\ writer = 0
    /\ view = <<>>
    /\ task = [t \in Tasks |-> IdleTask]
    /\ call = NoCall
    /\ canon = NoCanon

Next ==
    \/ \E t \in Tasks, u \in Users, c \in Credentials, g \in BOOLEAN : Register(t, u, c, g)
    \/ \E t \in Tasks, u \in Users, g \in BOOLEAN : Revoke(t, u, g)
    \/ \E t \in Tasks, u \in Users, id \in NoteIds, n \in Notes : Annotate(t, u, id, n)
    \/ \E t \in Tasks, u \in Users : SyncGetUser(t, u)
    \/ \E t \in Tasks : ReqGetUser(t)
    \/ \E t \in Tasks, resp \in SyncResponses : HttpCall(t, resp)
    \/ \E t \in Tasks : HttpResponse(t)
    \/ \E t \in Tasks : Except(t)
    \/ \E t \in Tasks : InsertExecute(t)
    \/ \E t \in Tasks : InsertCommit(t)

\* No handler of Spec reads a timestamp, so Spec leaves the clock where it
\* is: SpecStore moves it.  view_journal, which only reads, is in SpecLive.
Spec == Init /\ [][Next]_vars

----------------------------------------------------------------------------
(* SpecLive: the five handlers, each store call a step of its own that may *)
(* raise (sqlite3.OperationalError: the database is locked, the disk is    *)
(* full), on a database that holds a credential and a journal already.     *)

LiveTasks == 1..NumLive

StoreError == Failure("OperationalError", "", "", "", NoText)

\* the journal at the start: user "1" holds T1, annotated, and T2; user "2"
\* holds T1
LiveJournal ==
    add_note(insert_trades(insert_trades(<<>>, "1", <<NormalizeItem(RawT1),
                                                      NormalizeItem(RawT2)>>).rows,
                           "2", <<NormalizeItem(RawT1)>>).rows,
             "1", "T1", "n1").rows

InitLive ==
    /\ users \in {{}, {UserRow("1", "K1", "S1", 0, 0)}}
    /\ trades \in {<<>>, LiveJournal}
    /\ clock = 0
    /\ writer = 0
    /\ view = <<>>
    /\ task = [t \in Tasks |-> IdleTask]
    /\ call = NoCall
    /\ canon = NoCanon

\* register_bitunix and revoke_bitunix up to their store call: DM only
InvokeKeys(t, op, u, cred, guild) ==
    /\ CanStart(t)
    /\ task' = [task EXCEPT ![t] =
                    IF guild
                    THEN [Finish(t, "Este comando solo en DM")
                            EXCEPT !.op = op, !.user = u]
                    ELSE [task[t] EXCEPT !.op = op, !.user = u, !.pc = "store",
                                         !.cred = cred]]
    /\ UNCHANGED <<users, trades, clock, writer, view, call, canon>>

\* add_note_command up to its store call: defer
InvokeNote(t, u, trade_id, note) ==
    /\ CanStart(t)
    /\ task' = [task EXCEPT ![t] =
                    [task[t] EXCEPT !.op = "annotate", !.user = u, !.pc = "store",
                                    !.trade_id = trade_id, !.note = note]]
    /\ UNCHANGED <<users, trades, clock, writer, view, call, canon>>

\* view_journal up to its store call: defer, safe_page
InvokeView(t, u, page) ==
    /\ CanStart(t)
    /\ task' = [task EXCEPT ![t] =
                    [task[t] EXCEPT !.op = "view", !.user = u, !.pc = "store",
                                    !.page = Max(1, page)]]
    /\ UNCHANGED <<users, trades, clock, writer, view, call, canon>>

\* await upsert_user(...), then the confirmation
StoreRegister(t) ==
    /\ task[t].pc = "store" /\ task[t].op = "register"
    /\ writer = 0
    /\ users' = upsert_user(users, task[t].user, task[t].cred.api_key,
                            task[t].cred.api_secret, clock)
    /\ task' = [task EXCEPT ![t] = Finish(t, "Keys registradas")]
    /\ UNCHANGED <<trades, clock, writer, view, call, canon>>

\* revoke that deletes the user's trades with the credential
StoreRevokeCascade(t) ==
    /\ task[t].pc = "store" /\ task[t].op = "revoke"
    /\ writer = 0
    /\ users' = delete_user(users, task[t].user)
    /\ trades' = SelectSeq(trades, LAMBDA r : r.user_discord_id # task[t].user)
    /\ task' = [task EXCEPT ![t] = Finish(t, "Keys eliminadas")]
    /\ UNCHANGED <<clock, writer, view, call, canon>>

\* await delete_user(...), then the confirmation
StoreRevoke(t) ==
    /\ task[t].pc = "store" /\ task[t].op = "revoke"
    /\ writer = 0
    /\ users' = delete_user(users, task[t].user)
    /\ task' = [task EXCEPT ![t] = Finish(t, "Keys eliminadas")]
    /\ UNCHANGED <<trades, clock, writer, view, call, canon>>

\* await add_note(...), then the reply that tells whether a row matched
StoreAnnotate(t) ==
    /\ task[t].pc = "store" /\ task[t].op = "annotate"
    /\ writer = 0
    /\ LET r == add_note(trades, task[t].user, task[t].trade_id, task[t].note)
       IN  /\ trades' = r.rows
           /\ task' = [task EXCEPT ![t] =
                           Finish(t, IF r.updated THEN "Nota agregada al trade"
                                     ELSE "No encontre ese trade_id en tu journal.")]
    /\ UNCHANGED <<users, clock, writer, view, call, canon>>

\* days=7, symbol=None: since_ms = now_ms - 7 * 86400000, offset from the page
ViewPage(T, u, now, page) ==
    list_trades(T, u, now * 1000 - 7 * 86400000, PageSize, (page - 1) * PageSize, <<>>)

\* await list_trades(...), then "No hay trades" or the embed of the page
StoreView(t) ==
    /\ task[t].pc = "store" /\ task[t].op = "view"
    /\ LET r == ViewPage(trades, task[t].user, clock, task[t].page)
       IN  task' = [task EXCEPT ![t] =
                       IF r.total = 0
                       THEN Finish(t, "No hay trades en ese rango. Usa /update_journal")
                       ELSE [Finish(t, "embed") EXCEPT !.shown = Len(r.page)]]
    /\ UNCHANGED <<users, trades, clock, writer, view, call, canon>>

\* the store call raises: the handler's own, or bitunix_request's get_user
StoreRaise(t) ==
    /\ task[t].pc \in {"store", "req_get_user"}
    /\ task' = [task EXCEPT ![t] = Raise(t, StoreError)]
    /\ UNCHANGED <<users, trades, clock, writer, view, call, canon>>

\* a db.execute or the db.commit of insert_trades raises: the connection
\* closes and its transaction, if it has one, is rolled back
InsertRaise(t) ==
    /\ task[t].pc \in {"insert", "commit"}
    /\ writer' = IF writer = t THEN 0 ELSE writer
    /\ view' = IF writer = t THEN <<>> ELSE view
    /\ task' = [task EXCEPT ![t] = Raise(t, StoreError)]
    /\ UNCHANGED <<users, trades, clock, call, canon>>

\* the next step of invocation t, whatever it is
TaskStep(t) ==
    \/ StoreRegister(t)
    \/ StoreRevoke(t)
    \/ StoreAnnotate(t)
    \/ StoreView(t)
    \/ StoreRaise(t)
    \/ ReqGetUser(t)
    \/ \E resp \in LiveResponses : HttpCall(t, resp)
    \/ HttpResponse(t)
    \/ Except(t)
    \/ InsertExecute(t)
    \/ InsertCommit(t)
    \/ InsertRaise(t)

NextLive ==
    \/ \E t \in LiveTasks, op \in {"register", "revoke"}, u \in Users, g \in BOOLEAN :
          InvokeKeys(t, op, u, [api_key |-> "K1", api_secret |-> "S1"], g)
    \/ \E t \in LiveTasks, u \in Users, n \in Notes : InvokeNote(t, u, "T2", n)
    \/ \E t \in LiveTasks, u \in Users, page \in {0, 2} : InvokeView(t, u, page)
    \/ \E t \in LiveTasks, u \in Users : SyncGetUser(t, u)
    \/ \E t \in LiveTasks : TaskStep(t)

\* The event loop runs every task that can go on; the HTTP call ends within
\* its timeout and a wait for SQLite's lock ends in the lock or in an error.
SpecLive ==
    InitLive /\ [][NextLive]_vars /\ \A t \in LiveTasks : WF_vars(TaskStep(t))

----------------------------------------------------------------------------
(* SpecRounds: the handlers of SpecLive, one invocation after another *)

\* The invocation has been answered: the next one takes its place.
Release(t) ==
    /\ task[t].pc = "done"
    /\ task' = [task EXCEPT ![t] = IdleTask]
    /\ UNCHANGED <<users, trades, clock, writer, view, call, canon>>

NextRounds ==
    \/ NextLive
    \/ \E t \in LiveTasks : Release(t)

SpecRounds == InitLive /\ [][NextRounds]_vars

----------------------------------------------------------------------------
(* SpecRequest: one request, bitunix_request as update_journal reaches it, *)
(* against every answer of ResponsePool.  The users table is drawn: the    *)
(* caller's row may be gone by the time of the lookup (a revoke between    *)
(* update_journal's own get_user and this one).                            *)

UserTables ==
    {{}} \cup {{UserRow(u, c.api_key, c.api_secret, 0, 0)} : u \in Users, c \in Credentials}
         \cup {{UserRow("1", c.api_key, c.api_secret, 0, 0),
                UserRow("2", d.api_key, d.api_secret, 0, 0)} : c, d \in Credentials}

InitRequest ==
    /\ users \in UserTables
    /\ trades = <<>>
    /\ clock = 0
    /\ writer = 0
    /\ view = <<>>
    /\ \E u \in Users :
          task = [t \in Tasks |->
                    IF t = 1 THEN [IdleTask EXCEPT !.op = "sync", !.user = u,
                                                   !.pc = "req_get_user"]
                    ELSE IdleTask]
    /\ call = NoCall
    /\ canon = NoCanon

NextRequest ==
    \/ \E t \in Tasks : ReqGetUser(t)
    \/ \E t \in Tasks, resp \in ResponsePool : HttpCall(t, resp)
    \/ \E t \in Tasks : HttpResponse(t)
    \/ \E t \in Tasks : Except(t)
    \/ \E t \in Tasks : InsertExecute(t)
    \/ \E t \in Tasks : InsertCommit(t)

SpecRequest == InitRequest /\ [][NextRequest]_vars

----------------------------------------------------------------------------
(* SpecStore: upsert_user, get_user and delete_user called one after       *)
(* another; call is the call that ended last.                              *)

StoreUpsert(u, cred) ==
    /\ users' = upsert_user(users, u, cred.api_key, cred.api_secret, clock)
    /\ call' = [NoCall EXCEPT !.fn = "upsert_user", !.flip = ~call.flip,
                              !.discord_id = u, !.cred = cred,
                              !.found = get_user(users, u)]
    /\ UNCHANGED <<trades, clock, writer, view, task, canon>>

StoreGet(u) ==
    /\ call' = [NoCall EXCEPT !.fn = "get_user", !.flip = ~call.flip,
                              !.discord_id = u, !.found = get_user(users, u)]
    /\ UNCHANGED <<users, trades, clock, writer, view, task, canon>>

StoreDelete(u) ==
    /\ users' = delete_user(users, u)
    /\ call' = [NoCall EXCEPT !.fn = "delete_user", !.flip = ~call.flip,
                              !.discord_id = u, !.found = get_user(users, u)]
    /\ UNCHANGED <<trades, clock, writer, view, task, canon>>

NextStore ==
    \/ \E u \in Users, c \in Credentials : StoreUpsert(u, c)
    \/ \E u \in Users : StoreGet(u)
    \/ \E u \in Users : StoreDelete(u)
    \/ Tick

SpecStore == Init /\ [][NextStore]_vars

----------------------------------------------------------------------------
(* SpecJournal: insert_trades called one call after another, each run to   *)
(* its end.                                                                *)

\* a dict without the key "trade_id"
TradeNoId == Trade(FALSE, "", "BTCUSDT", 1, "BUY", 1, 100, 0, 0, "{}")

TradePool == {NormalizeItem(RawT1), NormalizeItem(RawT1b), NormalizeItem(RawT2)}
\* every list of at most MaxBatch trades, and the lists of one trade and one
\* dict without a trade id
TradeLists ==
    UNION {[1..n -> TradePool] : n \in 0..MaxBatch}
        \cup {<<TradeNoId>>}
        \cup {<<g, TradeNoId>> : g \in TradePool}
        \cup {<<TradeNoId, g>> : g \in TradePool}

\* the trade ids of the list's entries
IdsOf(list) == {list[k].trade_id : k \in {j \in 1..Len(list) : list[j].has_id}}
\* the rows of user u
RowsOf(T, u) == {k \in 1..Len(T) : T[k].user_discord_id = u}
\* the trade ids stored for user u
StoredIds(T, u) == {T[k].trade_id : k \in RowsOf(T, u)}

\* N trades with distinct trade ids, none of them stored for the user
Fresh(T, u, list) ==
    /\ \A k \in 1..Len(list) : list[k].has_id
    /\ Cardinality(IdsOf(list)) = Len(list)
    /\ IdsOf(list) \cap StoredIds(T, u) = {}

\* History: this call repeats the call before it, which met no stored id
Repeats(u, list) ==
    /\ call.fn = "insert_trades"
    /\ call.fresh
    /\ call.discord_id = u
    /\ Len(call.list) = Len(list)
    /\ {call.list[k] : k \in 1..Len(call.list)} = {list[k] : k \in 1..Len(list)}

JournalInsert(u, list) ==
    /\ LET r == insert_trades(trades, u, list)
       IN  /\ trades' = r.rows
           /\ call' = [NoCall EXCEPT !.fn = "insert_trades", !.flip = ~call.flip,
                                     !.discord_id = u, !.list = list,
                                     !.result = r.result, !.error = r.error,
                                     !.fresh = Fresh(trades, u, list),
                                     !.repeat = Repeats(u, list)]
    /\ UNCHANGED <<users, clock, writer, view, task, canon>>

NextJournal ==
    \E u \in Users, list \in TradeLists : JournalInsert(u, list)

SpecJournal == Init /\ [][NextJournal]_vars

----------------------------------------------------------------------------
(* SpecNotes: add_note called one call after another on a journal that     *)
(* two syncs, one of each user, have filled.                               *)

NotePool == {"n1", "n2"}

\* the tables after insert_trades for user "1" and then for user "2"
NoteJournals ==
    {insert_trades(insert_trades(<<>>, "1", l1).rows, "2", l2).rows :
        l1, l2 \in UNION {[1..n -> TradePool] : n \in 0..MaxBatch}}

InitNotes ==
    /\ users = {}
    /\ trades \in NoteJournals
    /\ clock = 0
    /\ writer = 0
    /\ view = <<>>
    /\ task = [t \in Tasks |-> IdleTask]
    /\ call = NoCall
    /\ canon = NoCanon

JournalNote(u, trade_id, note) ==
    /\ LET r == add_note(trades, u, trade_id, note)
       IN  /\ trades' = r.rows
           /\ call' = [NoCall EXCEPT !.fn = "add_note", !.flip = ~call.flip,
                                     !.discord_id = u, !.note_id = trade_id,
                                     !.note = note, !.updated = r.updated]
    /\ UNCHANGED <<users, clock, writer, view, task, canon>>

NextNotes ==
    \E u \in Users, id \in NoteIds, n \in NotePool : JournalNote(u, id, n)

SpecNotes == InitNotes /\ [][NextNotes]_vars

----------------------------------------------------------------------------
(* SpecList: list_trades on a stored journal.                              *)

MaxRows == 16       \* rows of the stored journal

\* The k-th trade of a journal.  Style 1: one user, one symbol, a timestamp
\* of its own for every trade.  Style 2: two users, two symbols, timestamps
\* that repeat.
GenTrade(style, k) ==
    Trade(TRUE, "T" \o ToString(k),
          IF style = 2 /\ k % 3 = 0 THEN "ETHUSDT" ELSE "BTCUSDT",
          IF style = 2 THEN k % 3 ELSE k,
          "BUY", 10, 1000, 0, 0, "{}")
GenUser(style, k) == IF style = 2 /\ k % 2 = 0 THEN "2" ELSE "1"

\* the table after n calls of insert_trades, the k-th with the k-th trade
\* alone: the trade ids differ, so every call adds its row, with rowid k
JournalOf(style, n) ==
    [k \in 1..n |-> [TradeRow(<<>>, GenUser(style, k), GenTrade(style, k))
                        EXCEPT !.id = k]]

Journals == {JournalOf(style, n) : style \in {1, 2}, n \in 0..MaxRows}

InitList ==
    /\ users = {}
    /\ trades \in Journals
    /\ clock = 0
    /\ writer = 0
    /\ view = <<>>
    /\ task = [t \in Tasks |-> IdleTask]
    /\ call = NoCall
    /\ canon = NoCanon

ListCall(u, since_ms, limit, offset, symbol) ==
    /\ call.fn = ""
    /\ LET r == list_trades(trades, u, since_ms, limit, offset, symbol)
       IN  call' = [NoCall EXCEPT !.fn = "list_trades", !.flip = ~call.flip,
                                  !.discord_id = u, !.since_ms = since_ms,
                                  !.limit = limit, !.offset = offset,
                                  !.symbol = symbol,
                                  !.list = r.page, !.result = r.total]
    /\ UNCHANGED <<users, trades, clock, writer, view, task, canon>>

NextList ==
    \E u \in Users, since_ms \in {0, 2, 100}, limit \in {0, 1, PageSize},
       offset \in {0, 1, PageSize, 2 * PageSize},
       symbol \in {<<>>, <<"BTCUSDT">>, <<"ETHUSDT">>} :
        ListCall(u, since_ms, limit, offset, symbol)

SpecList == InitList /\ [][NextList]_vars

----------------------------------------------------------------------------
(* SpecNormalize: the normalizer of fetch_user_trades applied to a         *)
(* tradeList of RawLists.                                                  *)

InitNormalize ==
    /\ users = {}
    /\ trades = <<>>
    /\ clock = 0
    /\ writer = 0
    /\ view = <<>>
    /\ task = [t \in Tasks |-> IdleTask]
    /\ call \in {[NoCall EXCEPT !.raw = list] : list \in RawLists}
    /\ canon = NoCanon

\* the loop over call.raw and the return
NormalizeCall ==
    /\ call.fn = ""
    /\ LET r == Normalize(call.raw)
       IN  call' = [call EXCEPT !.fn = "fetch_user_trades", !.flip = ~call.flip,
                                !.list = r.trades,
                                !.result = r.count, !.error = r.error]
    /\ UNCHANGED <<users, trades, clock, writer, view, task, canon>>

NextNormalize == NormalizeCall

SpecNormalize == InitNormalize /\ [][NextNormalize]_vars

----------------------------------------------------------------------------
(* bitunix.py: canonical_query.  A text is the sequence of its code points, *)
(* so that sorted() compares as Python compares str.                        *)

\* a dict key or value: None, an int, or a str
PNone    == [t |-> "null", n |-> 0, c |-> <<>>]
PInt(n)  == [t |-> "int",  n |-> n, c |-> <<>>]
PText(c) == [t |-> "str",  n |-> 0, c |-> c]

RECURSIVE Digits(_)
Digits(n) == IF n < 10 THEN <<48 + n>> ELSE Digits(n \div 10) \o <<48 + (n % 10)>>

\* str(v)
StrOf(v) ==
    CASE v.t = "str"  -> v.c
      [] v.t = "int"  -> IF v.n < 0 THEN <<45>> \o Digits(0 - v.n) ELSE Digits(v.n)
      [] OTHER        -> <<78, 111, 110, 101>>      \* "None"

\* a < b for str: the first differing code point decides, a proper prefix is less
RECURSIVE StrLess(_, _)
StrLess(a, b) ==
    IF b = <<>> THEN FALSE
    ELSE IF a = <<>> THEN TRUE
    ELSE IF a[1] # b[1] THEN a[1] < b[1]
    ELSE StrLess(Tail(a), Tail(b))

\* x < y for the tuples (str(k), value text)
ItemLess(x, y) == StrLess(x[1], y[1]) \/ (x[1] = y[1] /\ StrLess(x[2], y[2]))

\* (str(k), "" if v is None else str(v)) for k, v in params.items()
ItemsOf(params) ==
    [k \in 1..Len(params) |->
        <<StrOf(params[k][1]),
          IF params[k][2].t = "null" THEN <<>> ELSE StrOf(params[k][2])>>]

\* x put into sorted sequence s, after the entries that are not greater
RECURSIVE InsertItem(_, _)
InsertItem(s, x) ==
    IF s = <<>> THEN <<x>>
    ELSE IF ItemLess(x, s[1]) THEN <<x>> \o s
    ELSE <<s[1]>> \o InsertItem(Tail(s), x)

\* the items left in the order of the dict
Unsorted(items) == items

RECURSIVE SortedFrom(_, _, _)
SortedFrom(items, k, acc) ==
    IF k > Len(items) THEN acc
    ELSE SortedFrom(items, k + 1, InsertItem(acc, items[k]))

\* sorted(items): stable, ascending
Sorted(items) == SortedFrom(items, 1, <<>>)

\* "".join(f"{key}{value}" for key, value in items)
RECURSIVE Join(_)
Join(items) ==
    IF items = <<>> THEN <<>>
    ELSE items[1][1] \o items[1][2] \o Join(Tail(items))

\* params is the dict as the sequence of its (key, value) entries in insertion
\* order; None and the empty dict are both <<>>.
canonical_query(params) ==
    IF params = <<>> THEN <<>>
    ELSE Join(Sorted(ItemsOf(params)))

----------------------------------------------------------------------------
(* SpecCanon: canonical_query on a mapping, then on the same entries        *)
(* inserted in another order.                                               *)

Key_skip  == <<115, 107, 105, 112>>       \* "skip"
Key_s     == <<115>>                      \* "s"
Key_1     == <<49>>                       \* "1"
Val_BTC   == <<66, 84, 67>>               \* "BTC"

\* the int key 1 and the str key "1" are two keys of one dict with one name
KeyPool   == {PText(Key_skip), PText(Key_s), PText(Key_1), PInt(1)}
ValuePool == {PNone, PInt(5), PInt(50), PText(Val_BTC)}

\* the dicts of at most MaxParams entries, each in one insertion order
ParamMaps ==
    {m \in UNION {[1..n -> KeyPool \X ValuePool] : n \in 0..MaxParams} :
        \A j, k \in 1..Len(m) : m[j][1] = m[k][1] => j = k}

InitCanon ==
    /\ users = {}
    /\ trades = <<>>
    /\ clock = 0
    /\ writer = 0
    /\ view = <<>>
    /\ task = [t \in Tasks |-> IdleTask]
    /\ call = NoCall
    /\ canon \in {[NoCanon EXCEPT !.params = m] : m \in ParamMaps}

\* canonical_query(params)
CanonFirst ==
    /\ canon.first = <<>>
    /\ canon' = [canon EXCEPT !.first = <<canonical_query(canon.params)>>]
    /\ UNCHANGED <<users, trades, clock, writer, view, task, call>>

\* canonical_query of the dict with the same entries inserted in order p
CanonSecond(p) ==
    /\ canon.first # <<>>
    /\ canon.second = <<>>
    /\ LET order == [k \in 1..Len(canon.params) |-> canon.params[p[k]]]
       IN  canon' = [canon EXCEPT !.order = order,
                                  !.second = <<canonical_query(order)>>]
    /\ UNCHANGED <<users, trades, clock, writer, view, task, call>>

NextCanon ==
    \/ CanonFirst
    \/ \E p \in Permutations(1..Len(canon.params)) : CanonSecond(p)

SpecCanon == InitCanon /\ [][NextCanon]_vars

----------------------------------------------------------------------------
(* bitunix.py: make_sign, and the signing of bitunix_request.              *)

\* hashlib.sha256(x).hexdigest(), taken as free of collisions: the digest
\* stands for the one text it was made of
Sha256Hex(x) == [sha256 |-> x]

\* A hex digest has 64 characters whatever it digests, so the text
\* f"{first_hash}{api_secret}" splits in one way only: it is the pair.
make_sign(api_key, api_secret, nonce, timestamp, query_canon, body_str) ==
    LET raw        == nonce \o timestamp \o api_key \o query_canon \o body_str
        first_hash == Sha256Hex(raw)
        final_hash == Sha256Hex(<<first_hash, api_secret>>)
    IN  final_hash

\* the code points of the stored credentials
CodePoints == [s \in {"K1", "K2", "S1", "S2"} |->
                  CASE s = "K1" -> <<75, 49>> [] s = "K2" -> <<75, 50>>
                    [] s = "S1" -> <<83, 49>> [] OTHER -> <<83, 50>>]

\* uuid.uuid4().hex of one request (its 32 hex digits cut to 2)
Nonce == <<57, 102>>

\* compact_json(None), and the body text of every GET
EmptyBody == <<>>

\* sign, as bitunix_request computes it for a GET with params
RequestSign(cred, nonce, now, params) ==
    make_sign(CodePoints[cred.api_key], CodePoints[cred.api_secret], nonce,
              Digits(now * 1000), canonical_query(params), EmptyBody)

Key_a   == <<97>>             \* "a"
Key_ab  == <<97, 98>>         \* "ab"
Key_b   == <<98>>             \* "b"
Val_c   == <<99>>             \* "c"
Val_bc  == <<98, 99>>         \* "bc"

SignKeys   == {PText(Key_a), PText(Key_ab), PText(Key_b)}
SignValues == {PNone, PText(<<>>), PText(Val_c), PText(Val_bc)}

\* the dicts of at most MaxSignParams entries, each in one insertion order
SignMaps ==
    {m \in UNION {[1..n -> SignKeys \X SignValues] : n \in 0..MaxSignParams} :
        \A j, k \in 1..Len(m) : m[j][1] = m[k][1] => j = k}

InitSign ==
    /\ users = {}
    /\ trades = <<>>
    /\ clock = 0
    /\ writer = 0
    /\ view = <<>>
    /\ task = [t \in Tasks |-> IdleTask]
    /\ call = NoCall
    /\ canon \in {[NoCanon EXCEPT !.cred = c] : c \in Credentials}

\* a request with params p is signed
SignFirst(p) ==
    /\ canon.first = <<>>
    /\ canon' = [canon EXCEPT !.params = p,
                              !.first = <<RequestSign(canon.cred, Nonce, clock, p)>>]
    /\ UNCHANGED <<users, trades, clock, writer, view, task, call>>

\* a request with params q is signed with the same key, secret, nonce and timestamp
SignSecond(q) ==
    /\ canon.first # <<>>
    /\ canon.second = <<>>
    /\ canon' = [canon EXCEPT !.order = q,
                              !.second = <<RequestSign(canon.cred, Nonce, clock, q)>>]
    /\ UNCHANGED <<users, trades, clock, writer, view, task, call>>

NextSign ==
    \/ \E p \in SignMaps : SignFirst(p)
    \/ \E q \in SignMaps : SignSecond(q)

SpecSign == InitSign /\ [][NextSign]_vars

----------------------------------------------------------------------------
(* bitunix.py: what bitunix_request sends, logs and raises.                *)

BITUNIX_BASE_URL == "https://fapi.bitunix.com"
HistoryPath == "/api/v1/futures/trade/get_history_trades"

\* headers of a GET: api-key, timestamp, nonce, sign
Headers(cred, nonce, now, params) ==
    [api_key   |-> CodePoints[cred.api_key],
     timestamp |-> Digits(now * 1000),
     nonce     |-> nonce,
     sign      |-> RequestSign(cred, nonce, now, params)]

\* a log record: the format and the values formatted into it
LogRecord(format, args) == [format |-> format, args |-> args]

\* str(response.url): the base, the path and the query the params make
FinalUrl(path, params) == [base |-> BITUNIX_BASE_URL, path |-> path, query |-> params]

\* the request logged with its headers
RequestLogWithHeaders(path, params, headers, resp) ==
    <<LogRecord("Bitunix request path=%s params=%s headers=%s", <<path, params, headers>>)>>

\* The records logger.info writes in the course of one request, in order:
\* the request before it is sent; the URL and the status once the response
\* is there; the payload when the status is 200 and the body parses.
RequestLog(path, params, headers, resp) ==
    <<LogRecord("Bitunix request path=%s params=%s", <<path, params>>)>>
    \o (IF resp.timeout THEN <<>>
        ELSE <<LogRecord("Bitunix final URL=%s", <<FinalUrl(path, params)>>),
               LogRecord("Bitunix HTTP status=%s", <<resp.status>>)>>)
    \o (IF ~resp.timeout /\ resp.status = 200 /\ resp.parses
        THEN <<LogRecord("Bitunix response JSON=%s", <<resp.payload>>)>>
        ELSE <<>>)

\* One bitunix_request of a registered user, from the signing on: the
\* headers sent, the records logged and the exception raised.
RequestRun(cred, nonce, now, path, params, resp) ==
    LET headers == Headers(cred, nonce, now, params)
    IN  [headers |-> headers,
         log     |-> RequestLog(path, params, headers, resp),
         failure |-> ResponseChecks(resp)]

----------------------------------------------------------------------------
(* SpecLeak: the same request, answered the same way, for two stored       *)
(* credentials.                                                            *)

LeakCreds == Credentials \cup {[api_key |-> "K1", api_secret |-> "S2"]}
LeakParams == {m \in SignMaps : Len(m) <= 1}

InitLeak ==
    /\ users = {}
    /\ trades = <<>>
    /\ clock = 0
    /\ writer = 0
    /\ view = <<>>
    /\ task = [t \in Tasks |-> IdleTask]
    /\ call \in {[NoCall EXCEPT !.cred = c, !.cred2 = d] : c, d \in LeakCreds}
    /\ canon = NoCanon

LeakRequest(params, resp) ==
    /\ call.fn = ""
    /\ call' = [call EXCEPT
                    !.fn = "bitunix_request", !.flip = ~call.flip,
                    !.run1 = RequestRun(call.cred, Nonce, clock, HistoryPath, params, resp),
                    !.run2 = RequestRun(call.cred2, Nonce, clock, HistoryPath, params, resp)]
    /\ UNCHANGED <<users, trades, clock, writer, view, task, canon>>

NextLeak == \E params \in LeakParams, resp \in ResponsePool : LeakRequest(params, resp)

SpecLeak == InitLeak /\ [][NextLeak]_vars

----------------------------------------------------------------------------
(* Claims *)

\* a store call ends in this step
Called(fn) == call'.flip # call.flip /\ call'.fn = fn

UserRowCount(T, u) == Cardinality(RowsOf(T, u))

\* C1: insert_trades called twice in a row for one user with the same set of
\* N trades of distinct trade ids, none stored before the first call, returns
\* N and then 0, and the second call leaves the user's row count as it was.
C1_InsertTwice ==
    [][(Called("insert_trades") /\ Repeats(call'.discord_id, call'.list))
        => /\ call.error = "" /\ call.result = Len(call.list)
           /\ call'.error = "" /\ call'.result = 0
           /\ UserRowCount(trades', call'.discord_id)
                = UserRowCount(trades, call'.discord_id)]_vars

C1_Witness ==
    /\ call.fn = "insert_trades"
    /\ call.repeat
    /\ Len(call.list) >= 2
    /\ call.result = 0
    /\ UserRowCount(trades, call.discord_id) >= 2

\* C2: no two rows of table trades have the same (user_discord_id, trade_id),
\* in every state the handlers reach in any interleaving.
C2_UniqueTrades ==
    \A j, k \in 1..Len(trades) :
        (trades[j].user_discord_id = trades[k].user_discord_id
            /\ trades[j].trade_id = trades[k].trade_id) => j = k

FetchedIds(t) == IdsOf(task[t].fetched)

\* two syncs of one user, both ended, that fetched overlapping trade ids
C2_Witness ==
    \E t, o \in Tasks :
        /\ t # o
        /\ task[t].op = "sync" /\ task[o].op = "sync"
        /\ task[t].user = task[o].user
        /\ task[t].pc = "done" /\ task[o].pc = "done"
        /\ FetchedIds(t) \cap FetchedIds(o) # {}
        /\ Len(trades) >= 2

\* a sync that got its trades from the exchange and has ended
SyncEnded(t) == task[t].op = "sync" /\ task[t].pc = "done" /\ task[t].returned

\* C3: two syncs of the same user that both got their (possibly overlapping)
\* trades end without a failure, and once both have ended every trade id
\* either of them fetched is stored in exactly one row of that user.
C3_ConcurrentSyncs ==
    \A t, o \in Tasks :
        (t # o /\ SyncEnded(t) /\ SyncEnded(o) /\ task[t].user = task[o].user)
        => /\ ~task[t].failed /\ ~task[o].failed
           /\ \A id \in FetchedIds(t) \cup FetchedIds(o) :
                 Cardinality({k \in RowsOf(trades, task[t].user) :
                                 trades[k].trade_id = id}) = 1

\* the two ran concurrently: one issued its HTTP call while the other held its
\* response and had not committed
C3_Witness ==
    \E t, o \in Tasks :
        /\ t # o /\ SyncEnded(t) /\ SyncEnded(o)
        /\ task[t].user = task[o].user
        /\ task[t].raced
        /\ FetchedIds(t) \cap FetchedIds(o) # {}
        /\ task[t].fetched # task[o].fetched

\* C4: for a list of trades that all carry a trade id, insert_trades raises
\* nothing and returns the number of distinct trade ids of the list that were
\* not stored for the user, which is the growth of the user's row count and
\* of the table.
C4_InsertedCount ==
    [][(Called("insert_trades") /\ \A k \in 1..Len(call'.list) : call'.list[k].has_id)
        => LET u == call'.discord_id
           IN  /\ call'.error = ""
               /\ call'.result
                    = Cardinality(IdsOf(call'.list) \ StoredIds(trades, u))
               /\ UserRowCount(trades', u) - UserRowCount(trades, u) = call'.result
               /\ Len(trades') - Len(trades) = call'.result]_vars

\* a list that repeats a trade id or overlaps the stored ones: fewer rows than entries
C4_Witness ==
    /\ call.fn = "insert_trades"
    /\ call.error = ""
    /\ Len(call.list) >= 2
    /\ call.result >= 1
    /\ call.result < Len(call.list)

\* C5: at most one credential row per identity; upsert_user on an identity
\* that has a row sets api_key, api_secret and updated_at and keeps created_at.
C5_Upsert ==
    /\ [](\A r, q \in users : r.discord_id = q.discord_id => r = q)
    /\ [][(Called("upsert_user") /\ get_user(users, call'.discord_id) # <<>>)
            => LET old == get_user(users, call'.discord_id)[1]
                   new == get_user(users', call'.discord_id)
               IN  /\ new # <<>>
                   /\ new[1].api_key = call'.cred.api_key
                   /\ new[1].api_secret = call'.cred.api_secret
                   /\ new[1].updated_at = clock
                   /\ new[1].created_at = old.created_at]_vars

\* an upsert on an existing row, later than the row's creation, with other keys
C5_Witness ==
    /\ call.fn = "upsert_user"
    /\ call.found # <<>>
    /\ call.found[1].api_key # call.cred.api_key
    /\ \E r \in users : r.discord_id = call.discord_id /\ r.created_at < r.updated_at

\* C6: after delete_user the identity has no row; called for an identity
\* without a row (so also a second time in a row) it raises nothing and
\* leaves table users as it was.
C6_DeleteIdempotent ==
    [][Called("delete_user")
        => /\ get_user(users', call'.discord_id) = <<>>
           /\ call'.error = ""
           /\ get_user(users, call'.discord_id) = <<>> => users' = users]_vars

\* a delete for an identity without a row, while the other identity has one
C6_Witness ==
    /\ call.fn = "delete_user"
    /\ call.found = <<>>
    /\ users # {}

\* C7: a lookup that finds no row raises the unregistered-user failure, and a
\* request that raised it has issued no HTTP call and issues none.
C7_Unregistered ==
    /\ [][\A t \in Tasks :
            (task[t].pc = "req_get_user" /\ task'[t].pc # "req_get_user"
                /\ get_user(users, task[t].user) = <<>>)
            => /\ task'[t].pc = "except"
               /\ task'[t].failure = Unregistered
               /\ task'[t].http_calls = 0]_vars
    /\ [][\A t \in Tasks :
            task[t].failure = Unregistered
            => task'[t].http_calls = 0 /\ task'[t].pc \in {"except", "done"}]_vars

\* a request whose caller was revoked after update_journal's own get_user
C7_Witness ==
    \E t \in Tasks :
        /\ task[t].pc = "except"
        /\ task[t].failure = Unregistered
        /\ task[t].http_calls = 0
        /\ get_user(users, task[t].user) = <<>>

\* The kind of a failure, read off its message as a caller can.
KindOf(f) ==
    CASE f.exc = "Exception" /\ f.prefix = "HTTP "          -> "TransportError"
      [] f.exc = "Exception" /\ f.prefix = "JSON invalido: " -> "MalformedResponse"
      [] f.exc = "Exception"
           /\ f.prefix = "Respuesta inesperada: se esperaba objeto JSON."
                                                             -> "UnexpectedShape"
      [] f.exc = "Exception" /\ f.prefix = "Bitunix code="   -> "ExchangeError"
      [] OTHER                                               -> "other"

\* task t leaves the response checks in this step
Checked(t) == task[t].pc = "response" /\ task'[t].pc # "response"

IsZeroCode(code) ==
    \/ code.t \in {"int", "float"} /\ code.n = 0
    \/ code.t = "str" /\ code.s = "0"

\* C9: for a 200 answer that parses to a dict, the payload is returned exactly
\* when its code is the number 0 or the text "0"; any other code, an absent one
\* included, raises the exchange failure with that code and the payload's
\* message; the request issues one HTTP call.
C9_CodeCheck ==
    /\ [][\A t \in Tasks :
            (Checked(t) /\ ~task[t].resp.timeout /\ task[t].resp.status = 200
                /\ task[t].resp.parses /\ task[t].resp.payload.t = "dict")
            => LET p == task[t].resp.payload
                   f == task'[t].failure
               IN  /\ task'[t].returned <=> IsZeroCode(Get(p.code))
                   /\ ~IsZeroCode(Get(p.code))
                        => /\ task'[t].pc = "except"
                           /\ KindOf(f) = "ExchangeError"
                           /\ f.a = PyStr(Get(p.code))
                           /\ f.b = PyStr(PayloadMsg(p))]_vars
    /\ [](\A t \in Tasks : task[t].http_calls <= 1)

\* the entries of m, as (name, value text) pairs
PairsOf(m) == {ItemsOf(m)[k] : k \in 1..Len(m)}

\* s lists its pairs in ascending order of parameter name
AscendingByName(s) ==
    \A j, k \in 1..Len(s) : j < k => (s[j][1] = s[k][1] \/ StrLess(s[j][1], s[k][1]))

\* C10: canonical_query gives the same text for every insertion order of the
\* same entries, and that text is the entries' name and value texts
\* concatenated in ascending order of name.
C10_CanonicalOrder ==
    canon.second # <<>>
    => /\ canon.first = canon.second
       /\ \E n \in 0..MaxParams + 1 : \E s \in [1..n -> PairsOf(canon.params)] :
             /\ n = Len(canon.params)
             /\ \A x \in PairsOf(canon.params) :
                   Cardinality({k \in 1..n : s[k] = x})
                     = Cardinality({k \in 1..n : ItemsOf(canon.params)[k] = x})
             /\ AscendingByName(s)
             /\ canon.first[1] = Join(s)

\* three entries re-inserted in another order, not in ascending order before
C10_Witness ==
    /\ canon.second # <<>>
    /\ Len(canon.params) >= 3
    /\ canon.order # canon.params
    /\ ~AscendingByName(ItemsOf(canon.params))
    /\ ~AscendingByName(ItemsOf(canon.order))

\* the entries of dict m: two dicts are equal when their entries are
EntriesOf(m) == {m[k] : k \in 1..Len(m)}

\* C11: with the key, secret, nonce and timestamp fixed and the hash free of
\* collisions, two requests whose query-parameter mappings differ get
\* different signatures.
C11_SignatureBinding ==
    (canon.second # <<>> /\ EntriesOf(canon.params) # EntriesOf(canon.order))
    => canon.first # canon.second

\* a retained entry: a dict with a tradeId that is not null
Keyed(item) == item.isDict /\ item.tradeId.t \notin {"absent", "null"}

\* C12: for every tradeList the normalizer raises nothing and returns one
\* trade for each entry that is a dict with a non-null tradeId, in the order
\* of the list, and the count it reports is the length of what it returns.
C12_Subsequence ==
    call.fn = "fetch_user_trades"
    => LET kept == SelectSeq(call.raw, Keyed)
       IN  /\ call.error = ""
           /\ Len(call.list) = Len(kept)
           /\ \A k \in 1..Len(kept) :
                 /\ call.list[k].trade_id = PyStr(kept[k].tradeId)
                 /\ call.list[k].raw_json = Dumps(kept[k])
           /\ call.result = Len(call.list)

\* float(v) has no value: the field becomes 0.0
NoFloat(v) ==
    \/ v.t \in {"absent", "null", "list", "dict", "hugeint"}
    \/ v.t = "str" /\ v.s \notin DOMAIN FloatOfText

\* int(v) has no value: the timestamp becomes 0
NoInt(v) ==
    \/ v.t \in {"absent", "null", "list", "dict", "inf"}
    \/ v.t = "str" /\ v.s \notin DOMAIN IntOfText

\* C13: the normalizer raises nothing whatever the field values are: every
\* retained entry is normalized, a numeric field that does not convert is 0.0
\* and a timestamp that does not convert is 0.
C13_NeverFails ==
    call.fn = "fetch_user_trades"
    => LET kept == SelectSeq(call.raw, Keyed)
       IN  /\ call.error = ""
           /\ Len(call.list) = Len(kept)
           /\ \A k \in 1..Len(kept) :
                 /\ NoInt(kept[k].ctime) => call.list[k].timestamp_ms = 0
                 /\ NoFloat(kept[k].qty) => call.list[k].qty = 0
                 /\ NoFloat(kept[k].price) => call.list[k].price = 0
                 /\ NoFloat(kept[k].realizedPNL) => call.list[k].realized_pnl = 0
                 /\ NoFloat(kept[k].fee) => call.list[k].fee = 0

\* the rows of the table that the last list_trades call had to select from
Matching ==
    {k \in 1..Len(trades) :
        /\ trades[k].user_discord_id = call.discord_id
        /\ trades[k].timestamp_ms >= call.since_ms
        /\ call.symbol # <<>> => trades[k].symbol = call.symbol[1]}

\* C14: list_trades returns rows of the user at or after since (of the
\* symbol, when one is given), at most limit of them, the ones that follow
\* the first offset rows of the filtered set in its order (newest first),
\* and a total that is the size of the whole filtered set; 15 matching
\* rows, limit 10 and offset 10 give 5 rows and total 15.
C14_ListTrades ==
    call.fn = "list_trades"
    => /\ \A j \in 1..Len(call.list) :
             /\ \E k \in Matching : trades[k] = call.list[j]
             /\ Cardinality({k \in Matching :
                    \/ trades[k].timestamp_ms > call.list[j].timestamp_ms
                    \/ /\ trades[k].timestamp_ms = call.list[j].timestamp_ms
                       /\ trades[k].id > call.list[j].id})
                  = call.offset + j - 1
       /\ Len(call.list) <= call.limit
       /\ call.result = Cardinality(Matching)
       /\ Len(call.list) = Min(call.limit, Max(0, call.result - call.offset))
       /\ (call.result = 15 /\ call.limit = 10 /\ call.offset = 10)
            => Len(call.list) = 5

\* the second page of 15 matching rows, in a table that holds another row too
C14_Witness ==
    /\ call.fn = "list_trades"
    /\ call.result = 15
    /\ call.limit = 10
    /\ call.offset = 10
    /\ Len(call.list) = 5
    /\ Len(trades) > 15

\* C15: add_note for a (user, trade id) that has no row of that user returns
\* false, raises nothing and leaves the table as it was, rows of other users
\* with that trade id included; for a pair that has a row it returns true
\* and sets the note of that row, and no other field of any row changes.
C15_AddNote ==
    [][Called("add_note")
        => LET u   == call'.discord_id
               id  == call'.note_id
               hit == {k \in 1..Len(trades) :
                         trades[k].user_discord_id = u /\ trades[k].trade_id = id}
           IN  /\ call'.error = ""
               /\ call'.updated <=> hit # {}
               /\ hit = {} => trades' = trades
               /\ Cardinality(hit) <= 1
               /\ Len(trades') = Len(trades)
               /\ \A k \in 1..Len(trades) :
                     IF k \in hit
                     THEN trades'[k] = [trades[k] EXCEPT !.note = <<call'.note>>]
                     ELSE trades'[k] = trades[k]]_vars

\* add_note returned false for a trade id that a row of the other user carries
C15_Witness ==
    /\ call.fn = "add_note"
    /\ ~call.updated
    /\ \E k \in 1..Len(trades) :
          /\ trades[k].trade_id = call.note_id
          /\ trades[k].user_discord_id # call.discord_id
          /\ trades[k].note # <<>>

\* C16: two runs of bitunix_request with the same request and the same
\* answer that differ in the stored key or secret, and so in the signature,
\* write the same log records and raise the same failure: none of the three
\* is in a log record or in a failure.
C16_NoLeak ==
    call.fn = "bitunix_request"
    => /\ call.run1.log = call.run2.log
       /\ call.run1.failure = call.run2.failure

\* two runs that differ in the secret only, signed differently, whose answer
\* was logged and refused with the exchange's code and message
C16_Witness ==
    /\ call.fn = "bitunix_request"
    /\ call.cred.api_key = call.cred2.api_key
    /\ call.cred.api_secret # call.cred2.api_secret
    /\ call.run1.headers.sign # call.run2.headers.sign
    /\ Len(call.run1.log) = 4
    /\ call.run1.failure.prefix = "Bitunix code="

\* C17: every invocation that has begun ends with a reply, whatever the
\* store or the exchange client raised inside the handler.
C17_AlwaysReplies ==
    \A t \in LiveTasks :
        (task[t].pc # "idle") ~> (task[t].pc = "done" /\ task[t].reply # "")

\* a register whose store call raised and a sync whose request failed, both
\* answered with the handler's error message
C17_Witness ==
    \E t \in LiveTasks :
        /\ task[t].op = "register" /\ task[t].pc = "done" /\ task[t].failed
        /\ task[t].reply = "Error interno (revisa consola)"

\* C18: the trades table changes, in a sync, only in the last step of an
\* invocation whose request returned a payload and that ends without a
\* failure: a sync whose request fails in any way, or whose user is not
\* registered, leaves the table as it was before the invocation.
C18_FailedSyncWritesNothing ==
    [][\A t \in LiveTasks :
          (task'[t] # task[t] /\ task'[t].op = "sync" /\ trades' # trades)
              => /\ task[t].pc = "commit" /\ task[t].returned
                 /\ task'[t].pc = "done" /\ ~task'[t].failed]_vars

\* a sync whose request failed before any payload was returned, on a table
\* that holds rows
C18_Witness ==
    \E t \in LiveTasks :
        /\ task[t].op = "sync" /\ task[t].pc = "done" /\ task[t].failed
        /\ ~task[t].returned
        /\ trades # <<>>

\* C19: a stored row stays where it is and keeps every field but its note,
\* whatever operation runs and whatever a sync ingests again under its
\* trade id; its note changes only in the store call of an annotate
\* invocation of its user for its trade id.
C19_RowsImmutable ==
    [][/\ Len(trades') >= Len(trades)
       /\ \A k \in 1..Len(trades) :
             /\ [trades'[k] EXCEPT !.note = trades[k].note] = trades[k]
             /\ trades'[k].note # trades[k].note =>
                    \E t \in LiveTasks :
                        /\ task[t].op = "annotate" /\ task[t].pc = "store"
                        /\ task'[t].pc = "done"
                        /\ task[t].user = trades[k].user_discord_id
                        /\ task[t].trade_id = trades[k].trade_id
                        /\ trades'[k].note = <<task[t].note>>]_vars

\* a sync has stored its batch, which reported a trade id of an annotated
\* row of its user with another symbol: the row has its symbol and its note
C19_Witness ==
    \E t \in LiveTasks :
        /\ task[t].op = "sync" /\ task[t].pc = "done" /\ ~task[t].failed
        /\ \E i \in 1..Len(task[t].fetched), k \in 1..Len(trades) :
              /\ trades[k].user_discord_id = task[t].user
              /\ trades[k].trade_id = task[t].fetched[i].trade_id
              /\ trades[k].symbol # task[t].fetched[i].symbol
              /\ trades[k].note = <<"n1">>

\* the rows of the table that belong to discord_id
Owned(T, discord_id) == SelectSeq(T, LAMBDA r : r.user_discord_id = discord_id)

\* C20: no step of a register or of a revoke invocation changes the trades
\* table, and a view shows a user's rows whether or not the user has a
\* credential: "No hay trades" only when the user owns no row, else the
\* page of the rows the user owns.
C20_TradesOutliveCredential ==
    [][\A t \in LiveTasks :
          /\ (task'[t] # task[t] /\ task'[t].op \in {"register", "revoke"})
                => trades' = trades
          /\ (task[t].op = "view" /\ task[t].pc = "store" /\ task'[t].pc = "done"
                /\ ~task'[t].failed)
                => LET n == Len(Owned(trades, task[t].user))
                   IN  IF n = 0
                       THEN task'[t].reply = "No hay trades en ese rango. Usa /update_journal"
                       ELSE /\ task'[t].reply = "embed"
                            /\ task'[t].shown =
                                  Max(0, Min(PageSize, n - (task[t].page - 1) * PageSize))]_vars

\* a view shows rows to a user who has no credential any more: one of the
\* rows was stored by a sync of this user, so a revoke came after it
C20_Witness ==
    \E t \in LiveTasks :
        /\ task[t].op = "view" /\ task[t].pc = "done"
        /\ task[t].reply = "embed" /\ task[t].shown > 0
        /\ get_user(users, task[t].user) = <<>>
        /\ \E k \in 1..Len(trades) :
              /\ trades[k].user_discord_id = task[t].user
              /\ trades[k].trade_id = "T1" /\ trades[k].symbol = "ETHUSDT"

\* C21: insert_trades commits once, after the last entry: no step of its
\* loop changes the trades table, a failure before the commit leaves the
\* table as it was and discards what the connection had written, and the
\* commit makes the whole batch visible at once.
C21_AllOrNothing ==
    [][\A t \in LiveTasks :
          /\ (task[t].pc = "insert" /\ task'[t] # task[t]) => trades' = trades
          /\ (task[t].pc \in {"insert", "commit"} /\ task'[t].pc = "except")
                => /\ trades' = trades
                   /\ writer = t => (writer' = 0 /\ view' = <<>>)
          /\ (task[t].pc = "commit" /\ task'[t].pc = "done")
                => trades' = InsertLoop(trades, task[t].user, task[t].fetched, 1, 0).rows]_vars

\* a sync failed on the second entry of its batch, after the statement of
\* the first entry had run: the first entry is not in the table
C21_Witness ==
    \E t \in LiveTasks :
        /\ task[t].op = "sync" /\ task[t].pc = "except"
        /\ task[t].failure.exc = "OverflowError"
        /\ Len(task[t].fetched) = 2 /\ task[t].i = 2
        /\ ~Conflicts(trades, task[t].user, task[t].fetched[1].trade_id)

====
